---- MODULE Spec2Model ----
(***************************************************************************)
(* A model of the edge-border validation and bridging logic of             *)
(* auto_bridge.py and of its use by create_multiple_windows_helpers.py.    *)
(*                                                                         *)
(* The Maya scene is the state: the current selection, the border loops   *)
(* of the mesh, its faces, the vertex positions and the log of the        *)
(* scene-mutating commands issued so far.  A component name such as       *)
(* "pCube1.e[3]" is the record [mesh |-> name, kind |-> "e", idx |-> 3],   *)
(* a mesh name is a sequence of characters.                                *)
(***************************************************************************)
EXTENDS Integers, Sequences, FiniteSets, TLC

VARIABLES
    pc,                 \* the statement the script is about to run
    stack,              \* return addresses of the calls in progress
    exc,                \* the exception that ended the script, or "none"
    msg,                \* its message
    sel,                \* Maya's current selection, flattened (cmds.ls(sl, fl))
    isQuad,             \* auto_bridge's argument
    pos,                \* world position of every vertex
    loops,              \* the edge borders of the mesh, each in loop order
    everts,             \* the two vertices of every edge
    numFaces,           \* the mesh has the faces f[0] .. f[numFaces-1]
    cmdLog,             \* scene-mutating commands issued, in order
    obj_name,           \* local of auto_bridge / create_multiple_windows
    selected_edges,     \* argument of check_edge_borders
    edge_borders,       \* result of check_edge_borders: <<eb_first, eb_second>>
    orig_mesh,          \* faces of the mesh before the bridge (auto_bridge)
    edges_main,         \* arguments of bridge_closest_edges
    edges_secondary,
    closest_edge_pair,  \* result of bridge_closest_edges
    closest_distance,   \* local of bridge_closest_edges when it returns
    waitCursor,         \* whether cmds.waitCursor(st=True) is in force
    sel0,               \* the selection the tool was started on
    win                 \* arguments and locals of create_multiple_windows

vars == <<pc, stack, exc, msg, sel, isQuad, pos, loops, everts, numFaces,
          cmdLog, obj_name, selected_edges, edge_borders, orig_mesh,
          edges_main, edges_secondary, closest_edge_pair, closest_distance,
          waitCursor, sel0, win>>

(***************************************************************************)
(* Bounds of the model: the test mesh has three edge borders A, B and C   *)
(* and some edges that lie on no border.                                   *)
(***************************************************************************)
LenA == 3
LenB == 4
LenC == 3
NumInner == 1
MeshFaces == 2
MaxList == 2
MaxWin == 2
MaxArea == 2
MaxExtent == 2

Range(s) == {s[i] : i \in DOMAIN s}

Min2(a, b) == IF a < b THEN a ELSE b

\* ------------------------------------------------------------- names

NameP1 == <<"p", "1">>
NameP10 == <<"p", "1", "0">>
NameP2 == <<"p", "2">>

Edge(m, i) == [mesh |-> m, kind |-> "e", idx |-> i]
Face(m, i) == [mesh |-> m, kind |-> "f", idx |-> i]
Vtx(m, i) == [mesh |-> m, kind |-> "vtx", idx |-> i]

\* The text of a component name, token by token: "<mesh>.<kind>[<idx>]".
CompStr(c) == c.mesh \o <<".", c.kind, "[", c.idx, "]">>

StartsWith(s, p) ==
    /\ Len(p) <= Len(s)
    /\ \A i \in 1..Len(p) : s[i] = p[i]

\* selected_edges[0].split(".")[0]
SplitObjName(c) == c.mesh

\* int(edge.split(".e[")[1].split("]")[0]) is defined for edge names only:
\* on any other name split(".e[") has one element and [1] is an IndexError.
HasEdgeIndex(c) == c.kind = "e"
EdgeIndex(c) == c.idx

\* ---------------------------------------------------------- topology

EdgesA == 0..(LenA - 1)
EdgesB == LenA..(LenA + LenB - 1)
EdgesC == (LenA + LenB)..(LenA + LenB + LenC - 1)
NumBorderEdges == LenA + LenB + LenC
EdgesInner == NumBorderEdges..(NumBorderEdges + NumInner - 1)
NumEdges == NumBorderEdges + NumInner
AllEdges == 0..(NumEdges - 1)
Vertices == 0..(NumBorderEdges - 1)

LoopSeq(first, n) == [k \in 1..n |-> first + k - 1]
LoopA == LoopSeq(0, LenA)
LoopB == LoopSeq(LenA, LenB)
LoopC == LoopSeq(LenA + LenB, LenC)
InitLoops == {LoopA, LoopB, LoopC}

\* Edge e of a border loop runs from vertex e to the next vertex of the loop;
\* an edge on no border joins the first vertex of A to the first vertex of B.
NextInLoop(first, n, e) == first + ((e - first + 1) % n)
SortPair(a, b) == IF a <= b THEN <<a, b>> ELSE <<b, a>>
InitEdgeVerts(e) ==
    IF e \in EdgesA THEN SortPair(e, NextInLoop(0, LenA, e))
    ELSE IF e \in EdgesB THEN SortPair(e, NextInLoop(LenA, LenB, e))
    ELSE IF e \in EdgesC THEN SortPair(e, NextInLoop(LenA + LenB, LenC, e))
    ELSE <<0, LenA>>
InitEverts == [e \in AllEdges |-> InitEdgeVerts(e)]

\* ---------------------------------------------------------- geometry

\* Points whose pairwise distances are even integers, so that math.dist and
\* the halving of calculate_edges_distance are exact.
P0 == <<0, 0, 0>>
P1 == <<0, 0, 24>>
P2 == <<6, 8, 0>>
P3 == <<6, 8, 24>>
Points == {P0, P1, P2, P3}

\* The integer square root, by bisection: lo * lo <= n < hi * hi throughout.
RECURSIVE SqrtBetween(_, _, _)
SqrtBetween(n, lo, hi) ==
    IF hi - lo <= 1 THEN lo
    ELSE LET mid == (lo + hi) \div 2
         IN IF mid * mid <= n THEN SqrtBetween(n, mid, hi)
            ELSE SqrtBetween(n, lo, mid)
\* Square roots of the squared distances of a scene within 80 units a side.
SqrtTable == [n \in 0..(3 * 80 * 80) |-> SqrtBetween(n, 0, n + 1)]
\* Beyond the table the search starts from the root of n \div 64, eight times
\* which is at most 8 below the root of n, or else below 46341, the root of
\* 2^31.
ISqrt(n) ==
    IF n \in DOMAIN SqrtTable THEN SqrtTable[n]
    ELSE IF (n \div 64) \in DOMAIN SqrtTable
    THEN SqrtBetween(n, 8 * SqrtTable[n \div 64], 8 * SqrtTable[n \div 64] + 8)
    ELSE SqrtBetween(n, 0, Min2(n + 1, 46341))

Sq(x) == x * x

\* math.dist(coords_one, coords_two)
MathDist(p, q) == ISqrt(Sq(p[1] - q[1]) + Sq(p[2] - q[2]) + Sq(p[3] - q[3]))

\* cmds.xform(vert, q=True, t=True, ws=True) twice, then math.dist
calculate_vertices_distance(p, vert_one, vert_two) ==
    MathDist(p[vert_one], p[vert_two])

\* ------------------------------------------------------ Maya commands

\* cmds.polyEvaluate(components, ec=True): how many of them are edges.
PolyEvaluateEC(s) == Cardinality({i \in DOMAIN s : s[i].kind = "e"})

LoopOf(ls, i) == CHOOSE L \in ls : i \in Range(L)
IndexIn(L, i) == CHOOSE k \in DOMAIN L : L[k] = i
Rotate(L, k) == [j \in 1..Len(L) |-> L[((k + j - 2) % Len(L)) + 1]]
OnBorder(ls, i) == \E L \in ls : i \in Range(L)

\* cmds.polySelect(q=True, eb=i): the indices of the edge border through edge
\* i, in loop order from i and closed by i again; nothing when i is on no
\* border.
PolySelectEB(ls, i) ==
    IF OnBorder(ls, i)
    THEN Rotate(LoopOf(ls, i), IndexIn(LoopOf(ls, i), i)) \o <<i>>
    ELSE <<>>

\* cmds.polyListComponentConversion(edges, fe=True, tv=True), flattened.
EdgesToVerts(ev, edges) ==
    UNION {Range(ev[e.idx]) : e \in {x \in edges : x.idx \in DOMAIN ev}}

\* cmds.ls(..., fl=True) lists components by index.
RECURSIVE SortedSeq(_)
SortedSeq(S) ==
    IF S = {} THEN <<>>
    ELSE LET m == CHOOSE x \in S : \A y \in S : x <= y
         IN <<m>> \o SortedSeq(S \ {m})

\* The border loops after cmds.polyBridgeEdge(m, s): two distinct borders
\* become one, which runs through the two new side edges ne and ne + 1.
BridgeLoops(ls, ne, m, s) ==
    IF OnBorder(ls, m) /\ OnBorder(ls, s) /\ LoopOf(ls, m) # LoopOf(ls, s)
    THEN LET La == LoopOf(ls, m)
             Lb == LoopOf(ls, s)
             merged == Tail(Rotate(La, IndexIn(La, m))) \o <<ne>>
                       \o Tail(Rotate(Lb, IndexIn(Lb, s))) \o <<ne + 1>>
         IN (ls \ {La, Lb}) \cup {merged}
    ELSE ls

BridgeEverts(ev, ne, m, s) ==
    [e \in (DOMAIN ev) \cup {ne, ne + 1} |->
        IF e \in DOMAIN ev THEN ev[e]
        ELSE IF e = ne THEN SortPair(ev[m][1], ev[s][1])
        ELSE SortPair(ev[m][2], ev[s][2])]

MeshRank(m) == IF m = NameP1 THEN 0 ELSE IF m = NameP10 THEN 1 ELSE 2
KindRank(k) == IF k = "e" THEN 0 ELSE IF k = "f" THEN 1 ELSE 2
CompKey(c) == (MeshRank(c.mesh) * 10 + KindRank(c.kind)) * 1000 + c.idx

SortedComps(S) ==
    LET keys == SortedSeq({CompKey(c) : c \in S})
    IN [k \in DOMAIN keys |-> CHOOSE c \in S : CompKey(c) = keys[k]]

\* A selection list: the component selected first, then the others by name.
SelectionList(first, S) == <<first>> \o SortedComps(S \ {first})

Cmd(c, a, b) == [cmd |-> c, a |-> a, b |-> b]

MutatingCmds == {"polyBridgeEdge", "polyCloseBorder", "polyTriangulate",
                 "polyQuad", "polyConnectComponents", "polyChipOff", "move"}

\* ------------------------------------------------- check_edge_borders

Raise(e, m) == [exc |-> e, msg |-> m, value |-> <<>>]
Return(v) == [exc |-> "none", msg |-> "", value |-> v]

MsgOnlyBorders == "Only edge borders should be selected."
MsgSameMesh == "Selected edges must be on the same mesh."
MsgTwoBorders == "Two edge borders must be selected."
MsgAnother == "Another edge border must be selected."
MsgMore == "More edges must be selected for the edge borders."
MsgTooMany == "Too many edges have been selected."

\* [f"{obj_name}.e[{i}]" for i in indices[:-1]]
FormatBorder(obj, indices) ==
    [k \in 1..(Len(indices) - 1) |-> Edge(obj, indices[k])]

\* all(edge.startswith(obj_name) for edge in selected_edges)
AllOnMesh(obj, s) == \A i \in DOMAIN s : StartsWith(CompStr(s[i]), obj)

\* Lines 103-125, with other_edges[0] = o.
CheckSecondBorder(ls, obj, s, indices, eb_first, other, o) ==
    LET eb_second_indices == PolySelectEB(ls, EdgeIndex(o))
        eb_second == FormatBorder(obj, eb_second_indices)
    IN  IF eb_second_indices = <<>> THEN Raise("RuntimeError", MsgTwoBorders)
        ELSE IF ~(Range(eb_second_indices) \subseteq indices)
        THEN Raise("RuntimeError", MsgTwoBorders)
        ELSE IF Cardinality(other) < Len(eb_second)
        THEN Raise("RuntimeError", MsgMore)
        ELSE IF Len(eb_first) + Len(eb_second) > Len(s)
        THEN Raise("RuntimeError", MsgMore)
        ELSE IF Len(eb_first) + Len(eb_second) < Len(s)
        THEN Raise("RuntimeError", MsgTooMany)
        ELSE IF Len(eb_second) > Cardinality(other)
        THEN Raise("RuntimeError", MsgTooMany)
        ELSE Return(<<eb_first, eb_second>>)

\* Lines 86-101, then the rest for every element list(set(...))[0] can be.
CheckFirstBorder(ls, obj, s) ==
    LET indices == {EdgeIndex(s[i]) : i \in DOMAIN s}
        eb_first_indices == PolySelectEB(ls, EdgeIndex(s[1]))
        eb_first == FormatBorder(obj, eb_first_indices)
        other == Range(s) \ Range(eb_first)
    IN  IF eb_first_indices = <<>>
        THEN {Raise("RuntimeError", MsgTwoBorders)}
        ELSE IF ~(Range(eb_first_indices) \subseteq indices)
        THEN {Raise("RuntimeError", MsgTwoBorders)}
        ELSE IF other = {}
        THEN {Raise("RuntimeError", MsgAnother)}
        ELSE {CheckSecondBorder(ls, obj, s, indices, eb_first, other, o) :
                o \in other}

\* The outcomes of check_edge_borders(obj_name, selected_edges): more than one
\* where the order of list(set(...)) matters.
check_edge_borders(ls, obj, s) ==
    IF PolyEvaluateEC(s) = 0
    THEN {Raise("RuntimeError", MsgOnlyBorders)}
    ELSE IF \E i \in DOMAIN s : ~HasEdgeIndex(s[i])
    THEN {Raise("IndexError", "list index out of range")}
    ELSE IF ~AllOnMesh(obj, s)
    THEN {Raise("RuntimeError", MsgSameMesh)}
    ELSE CheckFirstBorder(ls, obj, s)

\* ---------------------------------------------- bridge_closest_edges

\* calculate_edges_distance with the second minimum taken from the first
\* vertex again.
calculate_edges_distance_first_vertex(ev, p, edge_one, edge_two) ==
    LET verts_one == ev[edge_one.idx]
        verts_two == ev[edge_two.idx]
        min_dist_one == Min2(calculate_vertices_distance(p, verts_one[1], verts_two[1]),
                             calculate_vertices_distance(p, verts_one[1], verts_two[2]))
    IN  (min_dist_one + min_dist_one) \div 2

\* calculate_edges_distance(edge_one, edge_two)
calculate_edges_distance(ev, p, edge_one, edge_two) ==
    LET verts_one == ev[edge_one.idx]
        verts_two == ev[edge_two.idx]
        min_dist_one == Min2(calculate_vertices_distance(p, verts_one[1], verts_two[1]),
                             calculate_vertices_distance(p, verts_one[1], verts_two[2]))
        min_dist_two == Min2(calculate_vertices_distance(p, verts_one[2], verts_two[1]),
                             calculate_vertices_distance(p, verts_one[2], verts_two[2]))
    IN  (min_dist_one + min_dist_two) \div 2

\* The k-th pair the nested loops of bridge_closest_edges visit.
PairAt(em, es, k) ==
    <<em[((k - 1) \div Len(es)) + 1], es[((k - 1) % Len(es)) + 1]>>

\* The comparison of line 148 with <= for <.
CloserOrEqual(d, best) == d <= best

\* elif edges_distance < closest_distance
Closer(d, best) == d < best

\* edges_distance at every turn of the nested loops (line 144).
EdgeDistances(ev, p, em, es) ==
    [k \in 1..(Len(em) * Len(es)) |->
        calculate_edges_distance(ev, p, PairAt(em, es, k)[1], PairAt(em, es, k)[2])]

\* The nested loops of lines 142-150 from their k-th turn of n on; acc holds
\* the turn closest_edge_pair was set at (0: still empty) and
\* closest_distance.
RECURSIVE ClosestScan(_, _, _, _)
ClosestScan(dists, n, k, acc) ==
    IF k > n THEN acc
    ELSE IF acc.at = 0
    THEN ClosestScan(dists, n, k + 1, [at |-> k, dist |-> dists[k]])
    ELSE IF Closer(dists[k], acc.dist)
    THEN ClosestScan(dists, n, k + 1, [at |-> k, dist |-> dists[k]])
    ELSE ClosestScan(dists, n, k + 1, acc)

\* closest_edge_pair and closest_distance after the loops (lines 139-150).
ClosestEdgePair(ev, p, em, es) ==
    LET res == ClosestScan(EdgeDistances(ev, p, em, es), Len(em) * Len(es), 1,
                           [at |-> 0, dist |-> 0])
    IN [pair |-> IF res.at = 0 THEN <<>> ELSE PairAt(em, es, res.at),
        dist |-> res.dist]

\* ---------------------------------------------- create_closest_edges

EmptyName == [mesh |-> <<>>, kind |-> "", idx |-> 0 - 1]

\* The loop of connect_closest_vertex, lines 268-273, from its k-th turn on.
RECURSIVE ConnectScan(_, _, _, _, _)
ConnectScan(p, v, vl, k, acc) ==
    IF k > Len(vl) THEN acc
    ELSE LET d == calculate_vertices_distance(p, v, vl[k])
         IN IF acc.dist = 0
            THEN ConnectScan(p, v, vl, k + 1, [vert |-> vl[k], dist |-> d])
            ELSE IF d < acc.dist
            THEN ConnectScan(p, v, vl, k + 1, [vert |-> vl[k], dist |-> d])
            ELSE ConnectScan(p, v, vl, k + 1, acc)

\* connect_closest_vertex: the vertex polyConnectComponents is given, or -1
\* for the empty name "" when vert_list is empty.
ConnectTarget(p, v, vl) ==
    ConnectScan(p, v, vl, 1, [vert |-> 0 - 1, dist |-> 0]).vert

\* The comparison of line 228 with >= for >.
MainIsFirstOrEqual(edges_first, edges_second) == Len(edges_first) >= Len(edges_second)

\* Lines 228-233
MainIsFirst(edges_first, edges_second) == Len(edges_first) > Len(edges_second)

\* Lines 243-250: the edge whose vertices are already bridged, or <<>> when
\* the code raises.
BridgedInMain(main, bridged_edge_pair) ==
    IF bridged_edge_pair[1] \in Range(main) THEN <<bridged_edge_pair[1]>>
    ELSE IF bridged_edge_pair[2] \in Range(main) THEN <<bridged_edge_pair[2]>>
    ELSE <<>>

\* The polyConnectComponents commands of the loop of lines 254-255, visiting
\* the vertices in the order `order`.
ConnectCmds(p, mesh, order, verts_secondary) ==
    [k \in DOMAIN order |->
        LET t == ConnectTarget(p, order[k], verts_secondary)
        IN Cmd("polyConnectComponents", {Vtx(mesh, order[k])},
               {IF t < 0 THEN EmptyName ELSE Vtx(mesh, t)})]

Perms(S) ==
    {f \in [1..Cardinality(S) -> S] :
        \A i, j \in 1..Cardinality(S) : i # j => f[i] # f[j]}

\* ------------------------------------------------------------ actions

MsgNoSelection == "No selections have been made."
MsgBridgedMissing == "Given bridged edges don't exist in initial edge borders."

\* An uncaught exception ends the script.
Throw(e, m) ==
    /\ pc' = "done"
    /\ stack' = <<>>
    /\ exc' = e
    /\ msg' = m

ReturnToCaller ==
    /\ pc' = Head(stack)
    /\ stack' = Tail(stack)
    /\ UNCHANGED <<exc, msg>>

FaceSet(n) == 0..(n - 1)

\* auto_bridge without lines 28-29: selected_edges[0] raises on an empty list.
AutoBridgeUnchecked ==
    /\ pc = "auto_bridge"
    /\ IF sel = <<>>
       THEN /\ Throw("IndexError", "list index out of range")
            /\ UNCHANGED <<obj_name, selected_edges>>
       ELSE /\ obj_name' = SplitObjName(sel[1])
            /\ selected_edges' = sel
            /\ pc' = "check_edge_borders"
            /\ stack' = <<"ab_checked">> \o stack
            /\ UNCHANGED <<exc, msg>>
    /\ UNCHANGED <<sel, isQuad, pos, loops, everts, numFaces, cmdLog,
                   edge_borders, orig_mesh, edges_main, edges_secondary,
                   closest_edge_pair, closest_distance, waitCursor, sel0, win>>

\* auto_bridge, lines 27-33: read the selection and call check_edge_borders.
AutoBridge ==
    /\ pc = "auto_bridge"
    /\ IF sel = <<>>
       THEN /\ Throw("RuntimeError", MsgNoSelection)
            /\ UNCHANGED <<obj_name, selected_edges>>
       ELSE /\ obj_name' = SplitObjName(sel[1])
            /\ selected_edges' = sel
            /\ pc' = "check_edge_borders"
            /\ stack' = <<"ab_checked">> \o stack
            /\ UNCHANGED <<exc, msg>>
    /\ UNCHANGED <<sel, isQuad, pos, loops, everts, numFaces, cmdLog,
                   edge_borders, orig_mesh, edges_main, edges_secondary,
                   closest_edge_pair, closest_distance, waitCursor, sel0, win>>

\* check_edge_borders, lines 74-125.
CheckEdgeBorders ==
    /\ pc = "check_edge_borders"
    /\ \E r \in check_edge_borders(loops, obj_name, selected_edges) :
          IF r.exc # "none"
          THEN Throw(r.exc, r.msg) /\ UNCHANGED edge_borders
          ELSE edge_borders' = r.value /\ ReturnToCaller
    /\ UNCHANGED <<sel, isQuad, pos, loops, everts, numFaces, cmdLog,
                   obj_name, selected_edges, orig_mesh, edges_main,
                   edges_secondary, closest_edge_pair, closest_distance,
                   waitCursor, sel0, win>>

\* auto_bridge, lines 35-36: list the faces, call bridge_closest_edges.
AutoBridgeOrigMesh ==
    /\ pc = "ab_checked"
    /\ orig_mesh' = FaceSet(numFaces)
    /\ edges_main' = edge_borders[1]
    /\ edges_secondary' = edge_borders[2]
    /\ pc' = "bridge_closest_edges"
    /\ stack' = <<"fill_hole">> \o stack
    /\ UNCHANGED <<exc, msg, sel, isQuad, pos, loops, everts, numFaces,
                   cmdLog, obj_name, selected_edges, edge_borders,
                   closest_edge_pair, closest_distance, waitCursor, sel0, win>>

\* bridge_closest_edges, lines 139-154.
BridgeClosestEdges ==
    /\ pc = "bridge_closest_edges"
    /\ LET res == ClosestEdgePair(everts, pos, edges_main, edges_secondary)
           ne == Cardinality(DOMAIN everts)
       IN IF res.pair = <<>>
          THEN /\ Throw("IndexError", "list index out of range")
               /\ UNCHANGED <<loops, everts, numFaces, cmdLog,
                              closest_edge_pair, closest_distance>>
          ELSE /\ cmdLog' = Append(cmdLog, Cmd("polyBridgeEdge",
                                               {res.pair[1]}, {res.pair[2]}))
               /\ loops' = BridgeLoops(loops, ne, res.pair[1].idx, res.pair[2].idx)
               /\ everts' = BridgeEverts(everts, ne, res.pair[1].idx, res.pair[2].idx)
               /\ numFaces' = numFaces + 1
               /\ closest_edge_pair' = res.pair
               /\ closest_distance' = res.dist
               /\ ReturnToCaller
    /\ UNCHANGED <<sel, isQuad, pos, obj_name, selected_edges, edge_borders,
                   orig_mesh, edges_main, edges_secondary, waitCursor, sel0, win>>

\* fill_hole, lines 203-208: the border selected is that of hole_edges[0],
\* any element of the set.
FillHole ==
    /\ pc = "fill_hole"
    /\ LET hole_edges == (Range(edge_borders[1]) \cup Range(edge_borders[2]))
                         \ Range(closest_edge_pair)
       IN IF hole_edges = {}
          THEN /\ Throw("IndexError", "list index out of range")
               /\ UNCHANGED <<sel, loops, numFaces, cmdLog>>
          ELSE \E selected \in
                    {LET border == IF OnBorder(loops, EdgeIndex(h))
                                   THEN LoopOf(loops, EdgeIndex(h)) ELSE <<>>
                     IN [k \in DOMAIN border |-> Edge(h.mesh, border[k])] :
                        h \in hole_edges} :
                 LET border == [k \in DOMAIN selected |-> selected[k].idx]
                 IN /\ sel' = selected
                    /\ cmdLog' = Append(cmdLog, Cmd("polyCloseBorder",
                                                    Range(selected), {}))
                    /\ loops' = loops \ {border}
                    /\ numFaces' = IF border = <<>> THEN numFaces ELSE numFaces + 1
                    /\ pc' = "ab_filled"
                    /\ UNCHANGED <<stack, exc, msg>>
    /\ UNCHANGED <<isQuad, pos, everts, obj_name, selected_edges, edge_borders,
                   orig_mesh, edges_main, edges_secondary, closest_edge_pair,
                   closest_distance, waitCursor, sel0, win>>

\* filled_face without the subtraction of orig_mesh.
FilledFaceAll(obj, n, orig) == {Face(obj, f) : f \in FaceSet(n)}

\* set(filled_mesh) - set(orig_mesh), lines 39-40
FilledFace(obj, n, orig) == {Face(obj, f) : f \in FaceSet(n) \ orig}

\* auto_bridge, lines 39-46.
AutoBridgeFinish ==
    /\ pc = "ab_filled"
    /\ IF isQuad
       THEN /\ cmdLog' = cmdLog \o
                 <<Cmd("polyTriangulate", FilledFace(obj_name, numFaces, orig_mesh), {}),
                   Cmd("polyQuad", {}, {})>>
            /\ ReturnToCaller
       ELSE /\ pc' = "create_closest_edges"
            /\ UNCHANGED <<stack, exc, msg, cmdLog>>
    /\ UNCHANGED <<sel, isQuad, pos, loops, everts, numFaces, obj_name,
                   selected_edges, edge_borders, orig_mesh, edges_main,
                   edges_secondary, closest_edge_pair, closest_distance,
                   waitCursor, sel0, win>>

\* create_closest_edges(edge_borders[0], edge_borders[1], closest_edge_pair),
\* lines 228-255, with connect_closest_vertex for every vertex.
CreateClosestEdges ==
    /\ pc = "create_closest_edges"
    /\ LET first_is_main == MainIsFirst(edge_borders[1], edge_borders[2])
           main == IF first_is_main THEN edge_borders[1] ELSE edge_borders[2]
           secondary == IF first_is_main THEN edge_borders[2] ELSE edge_borders[1]
           verts_main == EdgesToVerts(everts, Range(main))
           verts_secondary == SortedSeq(EdgesToVerts(everts, Range(secondary)))
           bridged == BridgedInMain(main, closest_edge_pair)
       IN IF bridged = <<>>
          THEN /\ Throw("RuntimeError", MsgBridgedMissing)
               /\ UNCHANGED cmdLog
          ELSE \E order \in Perms(verts_main \ EdgesToVerts(everts, Range(bridged))) :
                 /\ cmdLog' = cmdLog \o ConnectCmds(pos, main[1].mesh, order,
                                                     verts_secondary)
                 /\ ReturnToCaller
    /\ UNCHANGED <<sel, isQuad, pos, loops, everts, numFaces, obj_name,
                   selected_edges, edge_borders, orig_mesh, edges_main,
                   edges_secondary, closest_edge_pair, closest_distance,
                   waitCursor, sel0, win>>

\* ------------------------------------------- create_multiple_windows

MsgSelectTwo == "Select two edge borders that represent a window and a wall."
MsgWontFit == "Number of windows won't fit the given wall."

\* Borders A and B lie on the first shell of the mesh, border C on the second;
\* the last face of the mesh is the second shell's.
ShellOfEdge(e) == IF e \in EdgesC THEN 1 ELSE 0
ShellFaces(sh) == IF sh = 1 THEN {MeshFaces - 1} ELSE FaceSet(MeshFaces - 1)
ShellOfFace(f) == IF f = MeshFaces - 1 THEN 1 ELSE 0
ShellLoops(sh) == IF sh = 1 THEN <<LoopC>> ELSE <<LoopA, LoopB>>
ShellVerts(sh) == IF sh = 1 THEN EdgesC ELSE EdgesA \cup EdgesB

MinOf(S) == CHOOSE x \in S : \A y \in S : x <= y
MaxOf(S) == CHOOSE x \in S : \A y \in S : x >= y

\* cmds.exactWorldBoundingBox(edges): xmin, ymin, zmin, xmax, ymax, zmax
ExactWorldBoundingBox(p, ev, edges) ==
    LET vs == EdgesToVerts(ev, edges)
    IN <<MinOf({p[v][1] : v \in vs}), MinOf({p[v][2] : v \in vs}),
         MinOf({p[v][3] : v \in vs}), MaxOf({p[v][1] : v \in vs}),
         MaxOf({p[v][2] : v \in vs}), MaxOf({p[v][3] : v \in vs})>>

\* get_window_border, lines 103-120, the closing faces having the areas
\* area[1] and area[2].
SmallerAfter(smaller, border, a) ==
    IF a < smaller[2] \/ smaller[2] = 0 THEN <<border, a>> ELSE smaller
get_window_border(borders, area) ==
    SmallerAfter(SmallerAfter(<<<<>>, 0>>, borders[1], area[1]),
                 borders[2], area[2])[1]

\* The comparison of line 146 with >= for >.
WontFitOrEqual(height, width, window_bbox, wall_bbox) ==
    LET windows_dims == <<(window_bbox[4] - window_bbox[1]) * width,
                          (window_bbox[5] - window_bbox[2]) * height,
                          (window_bbox[6] - window_bbox[3]) * width>>
        wall_dims == [i \in 1..3 |-> wall_bbox[i + 3] - wall_bbox[i]]
    IN \E i \in 1..3 : windows_dims[i] >= wall_dims[i]

\* check_if_windows_can_fit raises, lines 136-147
WontFit(height, width, window_bbox, wall_bbox) ==
    LET windows_dims == <<(window_bbox[4] - window_bbox[1]) * width,
                          (window_bbox[5] - window_bbox[2]) * height,
                          (window_bbox[6] - window_bbox[3]) * width>>
        wall_dims == [i \in 1..3 |-> wall_bbox[i + 3] - wall_bbox[i]]
    IN \E i \in 1..3 : windows_dims[i] > wall_dims[i]

Add3(a, b) == <<a[1] + b[1], a[2] + b[2], a[3] + b[3]>>
Sub3(a, b) == <<a[1] - b[1], a[2] - b[2], a[3] - b[3]>>

\* cmds.move(x, y, z, faces, r=True)
MovedPos(p, vs, d) == [v \in DOMAIN p |-> IF v \in vs THEN Add3(p[v], d) ELSE p[v]]

\* move_window_to_start, lines 225-237; the divisions are exact on the
\* coordinates of WindowScenes, multiples of WinUnit.
ShiftToBbox(wall_bbox, window_pivot) ==
    Sub3(<<wall_bbox[1], wall_bbox[2], wall_bbox[3]>>, window_pivot)
Movement(height, width, wall_bbox) ==
    <<(wall_bbox[4] - wall_bbox[1]) \div width,
      (wall_bbox[5] - wall_bbox[2]) \div height,
      (wall_bbox[6] - wall_bbox[3]) \div width>>
HalfMovement(m) == <<m[1] \div 2, m[2] \div 2, m[3] \div 2>>

\* The translation of lines 193-194 with i and j exchanged.
ChipOffTranslationSwapped(i, j, movement) ==
    <<i * movement[1], j * movement[2], i * movement[3]>>

\* The translation create_windows gives window (i, j), lines 193-194
ChipOffTranslation(i, j, movement) ==
    <<j * movement[1], i * movement[2], j * movement[3]>>

\* The border loops of the copy polyChipOff makes of the faces of shell sh,
\* on new edges from ne on (new vertices from nv on).
RECURSIVE CopyLoops(_, _)
CopyLoops(ls, ne) ==
    IF ls = <<>> THEN <<>>
    ELSE <<LoopSeq(ne, Len(Head(ls)))>> \o CopyLoops(Tail(ls), ne + Len(Head(ls)))

RECURSIVE Flatten(_)
Flatten(ls) == IF ls = <<>> THEN <<>> ELSE Head(ls) \o Flatten(Tail(ls))

ChipOffEverts(ev, sh, ne, nv) ==
    LET copies == CopyLoops(ShellLoops(sh), ne)
        new == Range(Flatten(copies))
        loopOf(e) == CHOOSE k \in DOMAIN copies : e \in Range(copies[k])
    IN [e \in (DOMAIN ev) \cup new |->
          IF e \in DOMAIN ev THEN ev[e]
          ELSE LET L == copies[loopOf(e)]
               IN SortPair(nv + (e - ne),
                           nv + (NextInLoop(L[1], Len(L), e) - ne))]

ChipOffPos(p, sh, nv, t) ==
    LET orig == Flatten(ShellLoops(sh))
    IN [v \in (DOMAIN p) \cup (nv..(nv + Len(orig) - 1)) |->
          IF v \in DOMAIN p THEN p[v] ELSE Add3(p[orig[v - nv + 1]], t)]

\* The areas Maya may report for the two closing faces.
AreaPairs == (0..MaxArea) \X (0..MaxArea)

\* create_multiple_windows without lines 36-37: selection[0] raises on an
\* empty list.
CreateMultipleWindowsUnchecked ==
    /\ pc = "create_multiple_windows"
    /\ IF sel = <<>>
       THEN /\ Throw("IndexError", "list index out of range")
            /\ UNCHANGED <<obj_name, selected_edges>>
       ELSE /\ obj_name' = SplitObjName(sel[1])
            /\ selected_edges' = sel
            /\ pc' = "check_edge_borders"
            /\ stack' = <<"get_borders_and_bboxs">> \o stack
            /\ UNCHANGED <<exc, msg>>
    /\ UNCHANGED <<sel, isQuad, pos, loops, everts, numFaces, cmdLog,
                   edge_borders, orig_mesh, edges_main, edges_secondary,
                   closest_edge_pair, closest_distance, waitCursor, sel0, win>>

\* create_multiple_windows, lines 33-41: the selection is checked and
\* get_borders_and_bboxs calls check_edge_borders.
CreateMultipleWindows ==
    /\ pc = "create_multiple_windows"
    /\ LET selection == sel
           num_edges == PolyEvaluateEC(selection)
       IN IF selection = <<>> \/ num_edges = 0
          THEN /\ Throw("RuntimeError", MsgSelectTwo)
               /\ UNCHANGED <<obj_name, selected_edges>>
          ELSE /\ obj_name' = SplitObjName(selection[1])
               /\ selected_edges' = selection
               /\ pc' = "check_edge_borders"
               /\ stack' = <<"get_borders_and_bboxs">> \o stack
               /\ UNCHANGED <<exc, msg>>
    /\ UNCHANGED <<sel, isQuad, pos, loops, everts, numFaces, cmdLog,
                   edge_borders, orig_mesh, edges_main, edges_secondary,
                   closest_edge_pair, closest_distance, waitCursor, sel0, win>>

\* get_borders_and_bboxs, lines 80-86, with get_window_border: each border is
\* closed, the new face measured and deleted again.
GetBordersAndBboxs ==
    /\ pc = "get_borders_and_bboxs"
    /\ \E window_border \in {get_window_border(edge_borders, area) :
                                area \in AreaPairs} :
          LET wall_border == SortedComps(Range(selected_edges) \ Range(window_border))
              newf == {Face(obj_name, numFaces)}
          IN /\ cmdLog' = cmdLog \o
                   <<Cmd("polyCloseBorder", Range(edge_borders[1]), {}),
                     Cmd("delete", newf, {}),
                     Cmd("polyCloseBorder", Range(edge_borders[2]), {}),
                     Cmd("delete", newf, {})>>
             /\ win' = [win EXCEPT
                   !.window_border = window_border,
                   !.window_bbox = ExactWorldBoundingBox(pos, everts, Range(window_border)),
                   !.wall_border = wall_border,
                   !.wall_bbox = IF wall_border = <<>> THEN <<0, 0, 0, 0, 0, 0>>
                                 ELSE ExactWorldBoundingBox(pos, everts, Range(wall_border))]
    /\ pc' = "check_if_windows_can_fit"
    /\ UNCHANGED <<stack, exc, msg, sel, isQuad, pos, loops, everts, numFaces,
                   obj_name, selected_edges, edge_borders, orig_mesh,
                   edges_main, edges_secondary, closest_edge_pair,
                   closest_distance, waitCursor, sel0>>

\* check_if_windows_can_fit, lines 136-147
CheckIfWindowsCanFit ==
    /\ pc = "check_if_windows_can_fit"
    /\ IF WontFit(win.height, win.width, win.window_bbox, win.wall_bbox)
       THEN Throw("ValueError", MsgWontFit)
       ELSE pc' = "window_faces" /\ UNCHANGED <<stack, exc, msg>>
    /\ UNCHANGED <<sel, isQuad, pos, loops, everts, numFaces, cmdLog, obj_name,
                   selected_edges, edge_borders, orig_mesh, edges_main,
                   edges_secondary, closest_edge_pair, closest_distance,
                   waitCursor, sel0, win>>

\* create_multiple_windows, lines 45-52: the pivot, the faces of the window's
\* shell (get_shell_faces_from_border selects them), the wait cursor.
WindowFaces ==
    /\ pc = "window_faces"
    /\ LET bb == win.window_bbox
           sh == ShellOfEdge(EdgeIndex(win.window_border[1]))
           faces == {Face(win.window_border[1].mesh, f) : f \in ShellFaces(sh)}
       IN /\ win' = [win EXCEPT
                !.window_pivot = [i \in 1..3 |-> (bb[i + 3] + bb[i]) \div 2],
                !.window = faces]
          /\ sel' = SortedComps(faces)
    /\ waitCursor' = TRUE
    /\ pc' = "create_windows"
    /\ UNCHANGED <<stack, exc, msg, isQuad, pos, loops, everts, numFaces,
                   cmdLog, obj_name, selected_edges, edge_borders, orig_mesh,
                   edges_main, edges_secondary, closest_edge_pair,
                   closest_distance, sel0>>

\* create_windows, lines 184-187: move_window_to_start, then the border of
\* the window's faces.
CreateWindows ==
    /\ pc = "create_windows"
    /\ LET sh == ShellOfFace((CHOOSE f \in win.window : TRUE).idx)
           shift == ShiftToBbox(win.wall_bbox, win.window_pivot)
           movement == Movement(win.height, win.width, win.wall_bbox)
           half == HalfMovement(movement)
       IN /\ cmdLog' = cmdLog \o <<Cmd("move", win.window, {shift}),
                                  Cmd("move", win.window, {half})>>
          /\ pos' = MovedPos(MovedPos(pos, ShellVerts(sh), shift),
                             ShellVerts(sh), half)
          /\ win' = [win EXCEPT
                !.movement = movement,
                !.main_window_border =
                    [k \in 1..Len(Flatten(ShellLoops(sh))) |->
                        Edge(obj_name, Flatten(ShellLoops(sh))[k])],
                !.i = 0, !.j = 0]
    /\ pc' = "create_windows_loop"
    /\ UNCHANGED <<stack, exc, msg, sel, isQuad, loops, everts, numFaces,
                   obj_name, selected_edges, edge_borders, orig_mesh,
                   edges_main, edges_secondary, closest_edge_pair,
                   closest_distance, waitCursor, sel0>>

NextCell(w) ==
    IF w.j + 1 < w.width THEN [w EXCEPT !.j = w.j + 1]
    ELSE [w EXCEPT !.i = w.i + 1, !.j = 0]

\* create_windows, lines 189-207: one turn of the nested loops, or the return
\* of main_window_border when they are over.
CreateWindowsLoop ==
    /\ pc = "create_windows_loop"
    /\ IF win.i >= win.height
       THEN /\ pc' = "bridge_windows"
            /\ UNCHANGED <<stack, sel, pos, loops, everts, numFaces, cmdLog,
                           edges_main, edges_secondary, win>>
       ELSE IF win.i = 0 /\ win.j = 0
       THEN /\ win' = NextCell(win)
            /\ UNCHANGED <<pc, stack, sel, pos, loops, everts, numFaces,
                           cmdLog, edges_main, edges_secondary>>
       ELSE LET sh == ShellOfFace((CHOOSE f \in win.window : TRUE).idx)
                ne == Cardinality(DOMAIN everts)
                nv == Cardinality(DOMAIN pos)
                t == ChipOffTranslation(win.i, win.j, win.movement)
                copy == Flatten(CopyLoops(ShellLoops(sh), ne))
                dup == [k \in DOMAIN copy |-> Edge(obj_name, copy[k])]
            IN /\ cmdLog' = Append(cmdLog, Cmd("polyChipOff", win.window, {t}))
               /\ everts' = ChipOffEverts(everts, sh, ne, nv)
               /\ pos' = ChipOffPos(pos, sh, nv, t)
               /\ loops' = loops \cup Range(CopyLoops(ShellLoops(sh), ne))
               /\ numFaces' = numFaces + Cardinality(win.window)
               /\ sel' = [k \in 1..Cardinality(win.window) |->
                             Face(obj_name, numFaces + k - 1)]
               /\ IF win.bridge_windows
                  THEN /\ win' = [win EXCEPT !.dup_window_border = dup]
                       /\ edges_main' = win.main_window_border
                       /\ edges_secondary' = dup
                       /\ pc' = "bridge_closest_edges"
                       /\ stack' = <<"get_bridged_border">> \o stack
                  ELSE /\ win' = NextCell(win)
                       /\ UNCHANGED <<pc, stack, edges_main, edges_secondary>>
    /\ UNCHANGED <<exc, msg, isQuad, obj_name, selected_edges, edge_borders,
                   orig_mesh, closest_edge_pair, closest_distance, waitCursor,
                   sel0>>

\* get_bridged_border, lines 253-261, and the end of the loop's turn.
GetBridgedBorder ==
    /\ pc = "get_bridged_border"
    /\ LET combined_borders ==
               (Range(win.main_window_border) \cup Range(win.dup_window_border))
               \ Range(closest_edge_pair)
       IN IF combined_borders = {}
          THEN Throw("IndexError", "list index out of range") /\ UNCHANGED win
          ELSE \E c \in combined_borders :
                 LET bridged_edges_indices == PolySelectEB(loops, EdgeIndex(c))
                 IN IF bridged_edges_indices = <<>>
                    THEN /\ Throw("TypeError", "'NoneType' object is not iterable")
                         /\ UNCHANGED win
                    ELSE /\ win' = NextCell([win EXCEPT !.main_window_border =
                                [k \in DOMAIN bridged_edges_indices |->
                                    Edge(obj_name, bridged_edges_indices[k])]])
                         /\ pc' = "create_windows_loop"
                         /\ UNCHANGED <<stack, exc, msg>>
    /\ UNCHANGED <<sel, isQuad, pos, loops, everts, numFaces, cmdLog, obj_name,
                   selected_edges, edge_borders, orig_mesh, edges_main,
                   edges_secondary, closest_edge_pair, closest_distance,
                   waitCursor, sel0>>

\* create_multiple_windows, lines 56-58: the wall and the windows are selected
\* and auto_bridge() is called.
BridgeWindows ==
    /\ pc = "bridge_windows"
    /\ IF win.bridge_windows
       THEN /\ sel' = SortedComps(Range(win.wall_border)
                                  \cup Range(win.main_window_border))
            /\ isQuad' = TRUE
            /\ pc' = "auto_bridge"
            /\ stack' = <<"windows_done">> \o stack
       ELSE /\ pc' = "windows_done"
            /\ UNCHANGED <<stack, sel, isQuad>>
    /\ UNCHANGED <<exc, msg, pos, loops, everts, numFaces, cmdLog, obj_name,
                   selected_edges, edge_borders, orig_mesh, edges_main,
                   edges_secondary, closest_edge_pair, closest_distance,
                   waitCursor, sel0, win>>

\* create_multiple_windows, lines 60-62
WindowsDone ==
    /\ pc = "windows_done"
    /\ waitCursor' = FALSE
    /\ sel' = <<[mesh |-> obj_name, kind |-> "obj", idx |-> 0]>>
    /\ ReturnToCaller
    /\ UNCHANGED <<isQuad, pos, loops, everts, numFaces, cmdLog, obj_name,
                   selected_edges, edge_borders, orig_mesh, edges_main,
                   edges_secondary, closest_edge_pair, closest_distance,
                   sel0, win>>

\* ------------------------------------------------------------- inputs

EdgeComps(m, idxs) == {Edge(m, i) : i \in idxs}

\* Unions of whole borders and inner edges, each also with one edge left out.
BorderUnions == {UNION Bs : Bs \in SUBSET {EdgesA, EdgesB, EdgesC}}
EdgeSelections ==
    {(U \cup I) \ D : U \in BorderUnions, I \in SUBSET EdgesInner,
                      D \in {{}} \cup {{e} : e \in AllEdges}}

ToolSelections ==
    {<<>>} \cup
    UNION {{SelectionList(Edge(NameP1, f), EdgeComps(NameP1, S)) : f \in S} :
             S \in EdgeSelections}

PointSeq == <<P0, P1, P2, P3>>
BasePos == [v \in Vertices |-> PointSeq[(v % 4) + 1]]

\* Vertex layouts: the first three vertices of border B placed freely.
FreeVerts == {LenA, LenA + 1, LenA + 2}
PosLayouts ==
    {[v \in Vertices |-> IF v \in FreeVerts THEN q[v] ELSE BasePos[v]] :
        q \in [FreeVerts -> {P0, P3}]}

InitScene ==
    /\ stack = <<"done">>
    /\ exc = "none"
    /\ msg = ""
    /\ loops = InitLoops
    /\ everts = InitEverts
    /\ numFaces = MeshFaces
    /\ cmdLog = <<>>
    /\ orig_mesh = {}
    /\ closest_distance = 0
    /\ waitCursor = FALSE

NoWindows ==
    [height |-> 1, width |-> 1, bridge_windows |-> FALSE,
     window_border |-> <<>>, window_bbox |-> <<>>, wall_border |-> <<>>,
     wall_bbox |-> <<>>, window_pivot |-> <<>>, window |-> {},
     movement |-> <<>>, main_window_border |-> <<>>,
     dup_window_border |-> <<>>, i |-> 0, j |-> 0, area |-> <<>>]

InitLocals ==
    /\ obj_name = <<>>
    /\ selected_edges = <<>>
    /\ edge_borders = <<>>
    /\ edges_main = <<>>
    /\ edges_secondary = <<>>
    /\ closest_edge_pair = <<>>

\* The auto_bridge tool is run on a selection.
InitAutoBridge ==
    /\ InitScene
    /\ InitLocals
    /\ pc = "auto_bridge"
    /\ sel \in ToolSelections
    /\ sel0 = sel
    /\ isQuad \in BOOLEAN
    /\ pos \in PosLayouts
    /\ win = NoWindows

Init == InitAutoBridge

Next ==
    \/ AutoBridge
    \/ CheckEdgeBorders
    \/ AutoBridgeOrigMesh
    \/ BridgeClosestEdges
    \/ FillHole
    \/ AutoBridgeFinish
    \/ CreateClosestEdges

Spec == Init /\ [][Next]_vars

\* The multiple-windows tool is run on a selection; the window on border C is
\* half the size of the walls in the second layout.
HalfSeq == <<P0, <<3, 4, 0>>, <<3, 4, 12>>>>
HalfPos == [v \in Vertices |->
              IF v \in EdgesC THEN HalfSeq[(v % 3) + 1] ELSE BasePos[v]]

\* Coordinates are floats in Maya; here they are multiples of a unit that
\* every division of the tool (by width, by height, by 2) divides exactly.
RECURSIVE Factorial(_)
Factorial(n) == IF n <= 1 THEN 1 ELSE n * Factorial(n - 1)
WinUnit == 2 * Factorial(MaxWin)
Scaled(p) == [v \in DOMAIN p |-> <<p[v][1] * WinUnit, p[v][2] * WinUnit,
                                    p[v][3] * WinUnit>>]
WindowScenes == {Scaled(BasePos), Scaled(HalfPos)}

WindowSelections ==
    {<<>>, <<Face(NameP1, 0)>>, <<Vtx(NameP1, 0)>>,
     <<Face(NameP1, 0), Vtx(NameP1, 0)>>, <<Face(NameP1, 0), Edge(NameP1, 0)>>}
    \cup
    UNION {{SelectionList(Edge(NameP1, f), EdgeComps(NameP1, U)) :
               f \in U \cap {0, LenA, LenA + LenB}} : U \in BorderUnions}

InitWindows ==
    /\ InitScene
    /\ InitLocals
    /\ pc = "create_multiple_windows"
    /\ sel \in WindowSelections
    /\ sel0 = sel
    /\ isQuad = TRUE
    /\ pos \in WindowScenes
    /\ \E h \in 1..MaxWin, w \in 1..MaxWin, b \in BOOLEAN :
          win = [NoWindows EXCEPT !.height = h, !.width = w, !.bridge_windows = b]

NextWindows ==
    \/ CreateMultipleWindows
    \/ CheckEdgeBorders
    \/ GetBordersAndBboxs
    \/ CheckIfWindowsCanFit
    \/ WindowFaces
    \/ CreateWindows
    \/ CreateWindowsLoop
    \/ BridgeClosestEdges
    \/ GetBridgedBorder
    \/ BridgeWindows
    \/ AutoBridge
    \/ AutoBridgeOrigMesh
    \/ FillHole
    \/ AutoBridgeFinish
    \/ WindowsDone

SpecWindows == InitWindows /\ [][NextWindows]_vars

\* check_edge_borders is called on a list of components, with the mesh of the
\* first one as obj_name (as auto_bridge and get_borders_and_bboxs call it).
ForeignSets ==
    {{}, {Face(NameP1, 0)}, {Vtx(NameP1, 0)}, {Edge(NameP10, LenA)},
     EdgeComps(NameP10, EdgesA), EdgeComps(NameP10, EdgesB),
     EdgeComps(NameP2, EdgesB)}

SelectInputs ==
    UNION {{SelectionList(f, EdgeComps(NameP1, S) \cup F) :
               f \in EdgeComps(NameP1, S) \cup F} :
             S \in EdgeSelections, F \in ForeignSets}

InitSelect ==
    /\ InitScene
    /\ pc = "check_edge_borders"
    /\ selected_edges \in SelectInputs
    /\ obj_name = SplitObjName(selected_edges[1])
    /\ sel = selected_edges
    /\ sel0 = sel
    /\ isQuad = TRUE
    /\ pos = BasePos
    /\ win = NoWindows
    /\ edge_borders = <<>>
    /\ edges_main = <<>>
    /\ edges_secondary = <<>>
    /\ closest_edge_pair = <<>>

NextSelect == CheckEdgeBorders

SpecSelect == InitSelect /\ [][NextSelect]_vars

\* bridge_closest_edges is called on a list of edges of border A and a list of
\* edges of border B, in every vertex layout.
EdgeLists(m, E) ==
    UNION {{s \in [1..n -> EdgeComps(m, E)] :
               \A i, j \in 1..n : i # j => s[i] # s[j]} : n \in 1..MaxList}

InitPairing ==
    /\ InitScene
    /\ pc = "bridge_closest_edges"
    /\ edges_main \in EdgeLists(NameP1, EdgesA)
    /\ edges_secondary \in EdgeLists(NameP1, EdgesB)
    /\ pos \in PosLayouts
    /\ sel = <<>>
    /\ sel0 = <<>>
    /\ isQuad = TRUE
    /\ win = NoWindows
    /\ obj_name = NameP1
    /\ selected_edges = <<>>
    /\ edge_borders = <<>>
    /\ closest_edge_pair = <<>>

NextPairing == BridgeClosestEdges

SpecPairing == InitPairing /\ [][NextPairing]_vars

\* create_closest_edges is called on two edge borders and a pair of edges.
BorderLists ==
    {FormatBorder(NameP1, PolySelectEB(InitLoops, L[1])) : L \in InitLoops}

InitClosest ==
    /\ InitScene
    /\ pc = "create_closest_edges"
    /\ edge_borders \in {bb \in BorderLists \X BorderLists : bb[1] # bb[2]}
    /\ closest_edge_pair \in
          {pr \in EdgeComps(NameP1, AllEdges) \X EdgeComps(NameP1, AllEdges) :
              pr[1] # pr[2]}
    /\ pos \in PosLayouts
    /\ sel = <<>>
    /\ sel0 = <<>>
    /\ isQuad = FALSE
    /\ win = NoWindows
    /\ obj_name = NameP1
    /\ selected_edges = <<>>
    /\ edges_main = <<>>
    /\ edges_secondary = <<>>

NextClosest == CreateClosestEdges

SpecClosest == InitClosest /\ [][NextClosest]_vars

\* get_window_border, lines 103-120, called on its own: each border is closed,
\* the area of the new face read and the face deleted again; win.area keeps
\* the two areas read.
GetWindowBorder ==
    /\ pc = "get_window_border"
    /\ \E area \in AreaPairs :
          LET newf == {Face(obj_name, numFaces)}
          IN /\ cmdLog' = cmdLog \o
                   <<Cmd("polyCloseBorder", Range(edge_borders[1]), {}),
                     Cmd("delete", newf, {}),
                     Cmd("polyCloseBorder", Range(edge_borders[2]), {}),
                     Cmd("delete", newf, {})>>
             /\ win' = [win EXCEPT
                   !.area = area,
                   !.window_border = get_window_border(edge_borders, area)]
    /\ ReturnToCaller
    /\ UNCHANGED <<sel, isQuad, pos, loops, everts, numFaces, obj_name,
                   selected_edges, edge_borders, orig_mesh, edges_main,
                   edges_secondary, closest_edge_pair, closest_distance,
                   waitCursor, sel0>>

\* get_window_border is called on the name of a mesh and two of its edge
\* borders.
BorderListsOf(m) ==
    {FormatBorder(m, PolySelectEB(InitLoops, L[1])) : L \in InitLoops}

InitBorder ==
    /\ InitScene
    /\ pc = "get_window_border"
    /\ obj_name \in {NameP1, NameP2}
    /\ edge_borders \in {bb \in BorderListsOf(obj_name) \X BorderListsOf(obj_name) :
                            bb[1] # bb[2]}
    /\ sel = <<>>
    /\ sel0 = <<>>
    /\ isQuad = TRUE
    /\ pos = BasePos
    /\ win = NoWindows
    /\ selected_edges = <<>>
    /\ edges_main = <<>>
    /\ edges_secondary = <<>>
    /\ closest_edge_pair = <<>>

NextBorder == GetWindowBorder

SpecBorder == InitBorder /\ [][NextBorder]_vars

\* check_if_windows_can_fit is called on two counts and two bounding boxes.
Bboxes(corner) ==
    {<<corner, corner, corner, corner + x, corner + y, corner + z>> :
        x \in 0..MaxExtent, y \in 0..MaxExtent, z \in 0..MaxExtent}

InitFit ==
    /\ InitScene
    /\ InitLocals
    /\ pc = "check_if_windows_can_fit"
    /\ sel = <<>>
    /\ sel0 = <<>>
    /\ isQuad = TRUE
    /\ pos = BasePos
    /\ \E h \in 1..MaxWin, w \in 1..MaxWin, c \in 0..1 :
       \E wb \in Bboxes(c), lb \in Bboxes(0) :
          win = [NoWindows EXCEPT !.height = h, !.width = w,
                                  !.window_bbox = wb, !.wall_bbox = lb]

NextFit == CheckIfWindowsCanFit

SpecFit == InitFit /\ [][NextFit]_vars

\* ------------------------------------------------------------- claims

MeshNames == {NameP1, NameP10, NameP2}

OnlyEdges(s) == \A i \in DOMAIN s : s[i].kind = "e"

\* The components of s are exactly two whole edge borders of one mesh.
TwoWholeBorders(s) ==
    \E m \in MeshNames : \E L1, L2 \in InitLoops :
        /\ L1 # L2
        /\ Range(s) = EdgeComps(m, Range(L1) \cup Range(L2))

\* The whole edge border through edge c.
BorderThrough(c) == EdgeComps(c.mesh, Range(LoopOf(InitLoops, c.idx)))

EdgesDist(e1, e2) == calculate_edges_distance(InitEverts, pos, e1, e2)

CmdNames == {cmdLog[k].cmd : k \in DOMAIN cmdLog}

\* C1: check_edge_borders returns normally exactly when the selected edges are
\* two whole edge borders of one mesh, and then returns the border of the
\* first selected edge and the other border, disjoint and together the
\* selection; every other non-empty selection of edges raises RuntimeError.
C1_TwoBordersIffReturn ==
    (pc = "done" /\ selected_edges # <<>> /\ OnlyEdges(selected_edges)) =>
        IF TwoWholeBorders(selected_edges)
        THEN /\ exc = "none"
             /\ Range(edge_borders[1]) = BorderThrough(selected_edges[1])
             /\ Range(edge_borders[1]) \cap Range(edge_borders[2]) = {}
             /\ Range(edge_borders[1]) \cup Range(edge_borders[2])
                    = Range(selected_edges)
        ELSE exc = "RuntimeError"

\* C2: bridge_closest_edges issues exactly one polyBridgeEdge, on a pair of
\* one edge of each list whose calculate_edges_distance is minimal, the first
\* such pair in iteration order, and returns that pair.
C2_BridgesFirstClosestPair ==
    pc = "done" =>
        /\ exc = "none"
        /\ cmdLog = <<Cmd("polyBridgeEdge", {closest_edge_pair[1]},
                          {closest_edge_pair[2]})>>
        /\ \E i \in DOMAIN edges_main, j \in DOMAIN edges_secondary :
              /\ closest_edge_pair = <<edges_main[i], edges_secondary[j]>>
              /\ \A a \in DOMAIN edges_main, b \in DOMAIN edges_secondary :
                    /\ EdgesDist(edges_main[i], edges_secondary[j])
                          <= EdgesDist(edges_main[a], edges_secondary[b])
                    /\ (a < i \/ (a = i /\ b < j)) =>
                          EdgesDist(edges_main[i], edges_secondary[j])
                             < EdgesDist(edges_main[a], edges_secondary[b])

\* A run where the closest pair is not the first pair visited and a later pair
\* is just as close.
C2_Witness ==
    /\ pc = "done"
    /\ Len(edges_main) = 2
    /\ Len(edges_secondary) = 2
    /\ closest_edge_pair = <<edges_main[2], edges_secondary[1]>>
    /\ EdgesDist(edges_main[2], edges_secondary[2])
          = EdgesDist(edges_main[2], edges_secondary[1])
    /\ cmdLog # <<>>

\* The distance from vertex v to the closest vertex of edge e.
ToClosestVertex(v, e) ==
    MinOf({MathDist(pos[v], pos[w]) : w \in Range(InitEverts[e.idx])})

\* C3: calculate_edges_distance(e1, e2) is the average, over the two vertices
\* of e1, of the distance to the closest vertex of e2 (here for the pair
\* bridge_closest_edges settled on, whose distance it keeps).
C3_AverageOfClosestVertexDistances ==
    pc = "done" =>
        LET e1 == closest_edge_pair[1]
            e2 == closest_edge_pair[2]
            a == InitEverts[e1.idx][1]
            b == InitEverts[e1.idx][2]
        IN 2 * closest_distance = ToClosestVertex(a, e2) + ToClosestVertex(b, e2)

\* A run where the two vertices of e1 are closest to different vertices of e2,
\* at different distances.
C3_Witness ==
    /\ pc = "done"
    /\ LET e1 == closest_edge_pair[1]
           e2 == closest_edge_pair[2]
           a == InitEverts[e1.idx][1]
           b == InitEverts[e1.idx][2]
           c == InitEverts[e2.idx][1]
           d == InitEverts[e2.idx][2]
       IN /\ MathDist(pos[a], pos[c]) < MathDist(pos[a], pos[d])
          /\ MathDist(pos[b], pos[d]) < MathDist(pos[b], pos[c])
          /\ MathDist(pos[a], pos[c]) # MathDist(pos[b], pos[d])
          /\ closest_distance > 0

\* C4: on an empty selection auto_bridge raises RuntimeError("No selections
\* have been made.") and has issued no scene-mutating command.
C4_EmptySelectionRaises ==
    (pc = "done" /\ sel0 = <<>>) =>
        /\ exc = "RuntimeError"
        /\ msg = MsgNoSelection
        /\ cmdLog = <<>>

C4_Witness == pc = "done" /\ sel0 = <<>> /\ exc # "none"

\* C5: check_edge_borders raises RuntimeError on every selection that contains
\* a component that is not an edge.
C5_NonEdgeRaisesRuntimeError ==
    (pc = "done" /\ ~OnlyEdges(selected_edges)) => exc = "RuntimeError"

\* C6: check_edge_borders raises RuntimeError("Selected edges must be on the
\* same mesh.") whenever some selected edge is not on the mesh of the first
\* selected edge.
C6_OtherMeshRaises ==
    (/\ pc = "done"
     /\ OnlyEdges(selected_edges)
     /\ \E i \in DOMAIN selected_edges : selected_edges[i].mesh # obj_name)
        => (exc = "RuntimeError" /\ msg = MsgSameMesh)

\* C7: on two whole edge borders auto_bridge issues one polyBridgeEdge on the
\* closest pair, then one polyCloseBorder on the remaining hole, then with
\* isQuad polyTriangulate on exactly the faces that did not exist before the
\* bridge followed by polyQuad, and without isQuad only polyConnectComponents.
C7_CommandOrder ==
    (pc = "done" /\ TwoWholeBorders(sel0)) =>
        /\ exc = "none"
        /\ Len(cmdLog) >= 2
        /\ cmdLog[1] = Cmd("polyBridgeEdge", {closest_edge_pair[1]},
                           {closest_edge_pair[2]})
        /\ closest_edge_pair[1] \in Range(edge_borders[1])
        /\ closest_edge_pair[2] \in Range(edge_borders[2])
        /\ \A m \in Range(edge_borders[1]), s \in Range(edge_borders[2]) :
              EdgesDist(closest_edge_pair[1], closest_edge_pair[2])
                 <= EdgesDist(m, s)
        /\ cmdLog[2] = Cmd("polyCloseBorder",
                           (Range(sel0) \ Range(closest_edge_pair))
                           \cup {Edge(NameP1, NumEdges), Edge(NameP1, NumEdges + 1)},
                           {})
        /\ isQuad =>
              /\ Len(cmdLog) = 4
              /\ cmdLog[3] = Cmd("polyTriangulate",
                                 {Face(NameP1, f) : f \in FaceSet(numFaces) \ FaceSet(MeshFaces)},
                                 {})
              /\ numFaces = MeshFaces + 2
              /\ cmdLog[4].cmd = "polyQuad"
        /\ ~isQuad =>
              \A k \in 3..Len(cmdLog) : cmdLog[k].cmd = "polyConnectComponents"

C7_Witness ==
    /\ pc = "done"
    /\ TwoWholeBorders(sel0)
    /\ isQuad
    /\ Len(cmdLog) = 4

C9_ForeignBridgedEdgeRaises ==
    (/\ pc = "done"
     /\ \E k \in 1..2 :
           closest_edge_pair[k] \notin
               Range(edge_borders[1]) \cup Range(edge_borders[2]))
        => exc = "RuntimeError"

\* The selection the tool was started on holds no edge.
NoEdgeSelected == \A i \in DOMAIN sel0 : sel0[i].kind # "e"

\* C10: when the selection is empty or holds no edge, create_multiple_windows
\* raises RuntimeError, and no face has been moved, chipped off or bridged and
\* the wait cursor has never been switched on.
C10_NoEdgesRaisesBeforeAnyEdit ==
    NoEdgeSelected =>
        /\ pc = "done" => exc = "RuntimeError"
        /\ waitCursor = FALSE
        /\ CmdNames \cap {"move", "polyChipOff", "polyBridgeEdge"} = {}

C10_Witness ==
    /\ pc = "done"
    /\ NoEdgeSelected
    /\ sel0 # <<>>
    /\ exc = "RuntimeError"

\* The number of windows along axis k: width for x and z, height for y.
CountOnAxis(k) == IF k = 2 THEN win.height ELSE win.width

Extent(bbox, k) == bbox[k + 3] - bbox[k]

\* C11: check_if_windows_can_fit raises ValueError exactly when on some axis
\* the window's extent times the number of windows on that axis is strictly
\* greater than the wall's extent; otherwise it returns and has changed
\* nothing.
C11_RaisesIffTooLargeOnSomeAxis ==
    pc # "check_if_windows_can_fit" =>
        IF \E k \in 1..3 : Extent(win.window_bbox, k) * CountOnAxis(k)
                              > Extent(win.wall_bbox, k)
        THEN pc = "done" /\ exc = "ValueError" /\ msg = MsgWontFit
        ELSE /\ pc = "window_faces"
             /\ exc = "none"
             /\ cmdLog = <<>>
             /\ pos = BasePos
             /\ waitCursor = FALSE

\* A call that returns with the windows exactly as large as the wall on one
\* axis.
C11_Witness ==
    /\ pc = "window_faces"
    /\ exc = "none"
    /\ \E k \in 1..3 :
          /\ Extent(win.wall_bbox, k) > 0
          /\ CountOnAxis(k) > 1
          /\ Extent(win.window_bbox, k) * CountOnAxis(k) = Extent(win.wall_bbox, k)

\* C12: get_window_border returns the border whose closing face has the
\* smaller area, the first border when both areas are equal, whatever
\* non-negative areas the two closing faces have.
C12_ReturnsSmallerBorder ==
    (pc = "done" /\ win.area # <<>>) =>
        win.window_border = IF win.area[2] < win.area[1]
                            THEN edge_borders[2] ELSE edge_borders[1]

\* The polyChipOff commands issued so far, in order.
ChipOffs == SelectSeq(cmdLog, LAMBDA c : c.cmd = "polyChipOff")

\* C13: create_windows, when it returns, has issued height * width - 1
\* polyChipOff commands on the window, the n-th for cell (i, j) = (n \div
\* width, n % width), translated by (j * x_move, i * y_move, j * z_move) with
\* x_move, y_move, z_move the wall's extents divided by width, height and
\* width; before them it has moved the window twice, which brought the centre
\* of the window to the wall's minimum corner plus half of that movement.
C13_WindowsEvenlySpaced ==
    pc = "bridge_windows" =>
        LET h == win.height
            w == win.width
            moves == {k \in DOMAIN cmdLog : cmdLog[k].cmd = "move"}
            chips == {k \in DOMAIN cmdLog : cmdLog[k].cmd = "polyChipOff"}
            bb == ExactWorldBoundingBox(pos, everts, Range(win.window_border))
        IN /\ Len(ChipOffs) = h * w - 1
           /\ \A n \in DOMAIN ChipOffs :
                 /\ ChipOffs[n].a = win.window
                 /\ \E t \in ChipOffs[n].b :
                       /\ ChipOffs[n].b = {t}
                       /\ t[1] * w = (n % w) * Extent(win.wall_bbox, 1)
                       /\ t[2] * h = (n \div w) * Extent(win.wall_bbox, 2)
                       /\ t[3] * w = (n % w) * Extent(win.wall_bbox, 3)
           /\ Cardinality(moves) = 2
           /\ \A m \in moves, c \in chips : m < c
           /\ \A k \in 1..3 :
                 CountOnAxis(k) * (bb[k] + bb[k + 3] - 2 * win.wall_bbox[k])
                    = Extent(win.wall_bbox, k)

\* create_windows has returned from a grid of two by two windows, bridged to
\* each other, on a wall with an extent on every axis it spreads them on.
C13_Witness ==
    /\ pc = "bridge_windows"
    /\ win.height = 2
    /\ win.width = 2
    /\ win.bridge_windows
    /\ Len(ChipOffs) = 3
    /\ Extent(win.wall_bbox, 2) > 0
    /\ Extent(win.wall_bbox, 1) + Extent(win.wall_bbox, 3) > 0

====
